---- MODULE Spec2Model ----
(***************************************************************************)
(* Product moderation workflow, primary-image maintenance and ownership    *)
(* guard of the multi-vendor e-commerce backend (backend/apps/products).   *)
(*                                                                         *)
(* The store is the tables Product, ProductImage and User.  Every view is  *)
(* modelled as the sequence of ORM queries it issues: one call of Step is  *)
(* one query (plus the local computation that follows it).  Django runs    *)
(* in autocommit mode and no view opens a transaction, so every query is   *)
(* committed on its own.  Spec runs each view to completion in one action  *)
(* (requests one at a time); ConcSpec interleaves the queries of requests  *)
(* that are in flight together.  CatalogSpec adds the product names, the   *)
(* slugs derived from them, the vendor flags the admin views write and the *)
(* public catalogue; CountersSpec interleaves the public reads of one      *)
(* published product.                                                      *)
(***************************************************************************)
EXTENDS Integers, Sequences, FiniteSets

VARIABLES
    products,     \* Product table: pk -> row
    images,       \* ProductImage table: pk -> row
    nextImageId,  \* next ProductImage pk (pks grow with created_at)
    accounts,     \* User table: username -> row
    reqs,         \* requests in flight (ConcSpec only): slot -> request
    started       \* number of requests begun (ConcSpec only)

vars == <<products, images, nextImageId, accounts, reqs, started>>

-----------------------------------------------------------------------------
(* Bounds *)

MaxProducts == 2
MaxImages == 2
MaxGallery == 3
MaxTime == 1
MaxInFlight == 2
MaxRequests == 4
MaxViews == 1

-----------------------------------------------------------------------------
(* Callers: apps/users/models.py *)

Users ==
    [ v1 |-> [role |-> "vendor",   is_verified_vendor |-> TRUE,  is_active |-> TRUE,
              is_staff |-> FALSE, is_superuser |-> FALSE],
      v2 |-> [role |-> "vendor",   is_verified_vendor |-> FALSE, is_active |-> TRUE,
              is_staff |-> FALSE, is_superuser |-> FALSE],
      cu |-> [role |-> "customer", is_verified_vendor |-> FALSE, is_active |-> TRUE,
              is_staff |-> FALSE, is_superuser |-> FALSE],
      ad |-> [role |-> "admin",    is_verified_vendor |-> FALSE, is_active |-> TRUE,
              is_staff |-> FALSE, is_superuser |-> FALSE],
      su |-> [role |-> "admin",    is_verified_vendor |-> FALSE, is_active |-> TRUE,
              is_staff |-> TRUE,  is_superuser |-> TRUE] ]

Callers == DOMAIN Users

NoUser == "none"

is_admin(u) == Users[u].role = "admin" \/ Users[u].is_superuser

is_vendor(u) == Users[u].role = "vendor"

can_sell_products(u) == is_vendor(u) /\ Users[u].is_active

can_moderate_products(u) == is_admin(u) /\ Users[u].is_active

\* rest_framework.permissions.IsAdminUser, the class the admin views name
DrfIsAdminUser(u) == Users[u].is_staff

IsVendorOrReadOnly(u) == is_vendor(u) /\ can_sell_products(u)

-----------------------------------------------------------------------------
(* Text: strings are sequences of characters; str.strip() *)

IsSpace(c) == c = " "

RECURSIVE LStrip(_)
LStrip(s) == IF s # <<>> /\ IsSpace(Head(s)) THEN LStrip(Tail(s)) ELSE s

RECURSIVE RStrip(_)
RStrip(s) ==
    IF s # <<>> /\ IsSpace(s[Len(s)]) THEN RStrip(SubSeq(s, 1, Len(s) - 1)) ELSE s

\* A strip that removes nothing
StripNone(s) == s

Strip(s) == RStrip(LStrip(s))

\* str.lower() on the letters of the model's alphabet
Lower(c) == CASE c = "A" -> "a" [] c = "B" -> "b" [] OTHER -> c

\* A character that re.sub(r'[^\w\s-]', '', value) keeps
IsSlugChar(c) == c \in {"a", "b", "_", "-", " "}

\* re.sub(r'[-\s]+', '-', value): every run of hyphens and spaces becomes one
\* hyphen
RECURSIVE Hyphenate(_)
Hyphenate(s) ==
    IF s = <<>> THEN <<>>
    ELSE LET rest == Hyphenate(Tail(s))
         IN  IF Head(s) \in {"-", " "}
             THEN IF rest # <<>> /\ Head(rest) = "-" THEN rest ELSE <<"-">> \o rest
             ELSE <<Head(s)>> \o rest

\* str.strip('-_')
RECURSIVE StripDashes(_)
StripDashes(s) ==
    IF s # <<>> /\ Head(s) \in {"-", "_"} THEN StripDashes(Tail(s))
    ELSE IF s # <<>> /\ s[Len(s)] \in {"-", "_"} THEN StripDashes(SubSeq(s, 1, Len(s) - 1))
    ELSE s

\* A slug that is the name itself
SlugifyVerbatim(name) == name

\* django.utils.text.slugify(name): lower case, the characters that are not
\* letters, digits, underscores, hyphens or spaces dropped, runs of hyphens
\* and spaces made one hyphen, hyphens and underscores at the ends removed
Slugify(name) ==
    StripDashes(Hyphenate(SelectSeq([i \in 1 .. Len(name) |-> Lower(name[i])], IsSlugChar)))

STATUS_CHOICES == {"draft", "pending", "active", "inactive", "rejected"}

-----------------------------------------------------------------------------
(* Rows, requests and responses *)

NoProduct ==
    [name |-> <<>>, slug |-> <<>>,
     seller |-> NoUser, status |-> "draft", description |-> <<>>, price |-> 0,
     stock |-> 0, approved_by |-> NoUser, approved_at |-> -1,
     rejection_reason |-> <<>>,
     is_featured |-> FALSE, views_count |-> 0, sales_count |-> 0]

NoImage == [id |-> 0, product |-> 0, is_primary |-> FALSE, order |-> 0]

\* request.data; an absent field is the empty set, a given one a singleton
NoData ==
    [partial |-> FALSE, name |-> {}, description |-> {}, price |-> {}, stock |-> {},
     status |-> {}, seller |-> {}, slug |-> {}, is_featured |-> {},
     views_count |-> {}, sales_count |-> {}, approved_by |-> {},
     is_primary |-> FALSE, order |-> 0, valid |-> TRUE, rejection_reason |-> <<>>,
     is_verified |-> {}, is_active |-> {}]

NewReq(op, caller, pk, image_pk, data) ==
    [op |-> op, caller |-> caller, pk |-> pk, image_pk |-> image_pk, data |-> data,
     slug |-> <<>>, vendor |-> NoUser, quantity |-> 1,
     pc |-> "start", product |-> NoProduct, image |-> NoImage,
     outcome |-> "none", errors |-> <<>>, listed |-> {}]

Db(p, i, n) == [products |-> p, images |-> i, nextImageId |-> n, accounts |-> Users]

Goto(db, r, pc) == [db |-> db, r |-> [r EXCEPT !.pc = pc]]

Respond(db, r, outcome) == [db |-> db, r |-> [r EXCEPT !.pc = "done", !.outcome = outcome]]

-----------------------------------------------------------------------------
(* ORM queries *)

\* A lookup that forgets the seller filter: get_object_or_404(Product, pk=pk)
OwnedByAnyone(db, pk, caller) == pk \in DOMAIN db.products

\* A lookup that finds only drafts:
\* get_object_or_404(Product, pk=pk, seller=request.user, status='draft')
OwnedByWhileDraft(db, pk, caller) ==
    /\ pk \in DOMAIN db.products
    /\ db.products[pk].seller = caller
    /\ db.products[pk].status = "draft"

\* get_object_or_404(Product, pk=pk, seller=request.user)
OwnedBy(db, pk, caller) == pk \in DOMAIN db.products /\ db.products[pk].seller = caller

\* A gallery lookup that forgets the product:
\* get_object_or_404(ProductImage, pk=image_pk)
ImagesOfAnyProduct(db, pk) == DOMAIN db.images

\* product.images
ImagesOf(db, pk) == {i \in DOMAIN db.images : db.images[i].product = pk}

\* An ordering by creation time alone
BeforeByCreation(db, i, j) == i < j

\* ProductImage.Meta.ordering = ['-is_primary', 'order', 'created_at']
Before(db, i, j) ==
    LET a == db.images[i]
        b == db.images[j]
    IN  \/ a.is_primary /\ ~b.is_primary
        \/ a.is_primary = b.is_primary /\ a.order < b.order
        \/ a.is_primary = b.is_primary /\ a.order = b.order /\ i < j

\* A first() that takes the image created last
FirstNewest(db, pk) ==
    CHOOSE i \in ImagesOf(db, pk) : \A j \in ImagesOf(db, pk) : j <= i

\* product.images.first()
First(db, pk) ==
    CHOOSE i \in ImagesOf(db, pk) : \A j \in ImagesOf(db, pk) \ {i} : Before(db, i, j)

\* qs.update(is_primary=False) over the rows of product pk in `which`
SetNotPrimary(db, which) ==
    [db EXCEPT !.images =
        [i \in DOMAIN db.images |->
            IF i \in which THEN [db.images[i] EXCEPT !.is_primary = FALSE]
            ELSE db.images[i]]]

\* A ProductImage.save that demotes the primaries of every product
DemoteAllProducts(db, img) ==
    IF img.is_primary /\ img.product # 0
    THEN SetNotPrimary(db, {i \in DOMAIN db.images : db.images[i].is_primary /\ i # img.id})
    ELSE db

\* A ProductImage.save that writes the row without demoting the others
DemoteOthersNever(db, img) == db

\* ProductImage.save, first half: demote the other primaries of the product
DemoteOthers(db, img) ==
    IF img.is_primary /\ img.product # 0
    THEN SetNotPrimary(db, {i \in ImagesOf(db, img.product) :
                                db.images[i].is_primary /\ i # img.id})
    ELSE db

\* A save that writes every column of the row but is_primary
WriteImageKeepFlag(db, img) ==
    LET row == [product |-> img.product,
                is_primary |-> IF img.id \in DOMAIN db.images
                               THEN db.images[img.id].is_primary ELSE img.is_primary,
                order |-> img.order]
    IN  [db EXCEPT !.images =
            [i \in DOMAIN db.images \cup {img.id} |->
                IF i = img.id THEN row ELSE db.images[i]]]

\* ProductImage.save, second half: super().save() writes the row (UPDATE, or
\* INSERT when no row has this pk)
WriteImage(db, img) ==
    LET row == [product |-> img.product, is_primary |-> img.is_primary, order |-> img.order]
    IN  [db EXCEPT !.images =
            [i \in DOMAIN db.images \cup {img.id} |->
                IF i = img.id THEN row ELSE db.images[i]]]

\* image.delete()
DeleteImage(db, id) ==
    [db EXCEPT !.images = [i \in DOMAIN db.images \ {id} |-> db.images[i]]]

\* ProductImageSerializer(data=image_data).save(): the new row, of the product
\* the view put in image_data
NewImageRow(db, r, is_primary) ==
    [id |-> 0, product |-> r.pk, is_primary |-> is_primary, order |-> r.data.order]

\* Product.save(): every column of the instance is written
WriteProduct(db, pk, row) == [db EXCEPT !.products[pk] = row]

\* Product.save(): "if not self.slug: self.slug = slugify(self.name)"
SaveSlug(row) == IF row.slug = <<>> THEN [row EXCEPT !.slug = Slugify(row.name)] ELSE row

\* slug = SlugField(unique=True): another row has this slug, so the INSERT or
\* UPDATE of row pk raises IntegrityError
SlugTaken(db, pk, slug) ==
    \E q \in DOMAIN db.products : q # pk /\ db.products[q].slug = slug

\* A catalogue that shows the products of every status
VisibleAlways(db, pk) ==
    /\ db.accounts[db.products[pk].seller].is_verified_vendor
    /\ db.accounts[db.products[pk].seller].is_active

\* filter(status='active', seller__is_verified_vendor=True,
\* seller__is_active=True)
Visible(db, pk) ==
    /\ db.products[pk].status = "active"
    /\ db.accounts[db.products[pk].seller].is_verified_vendor
    /\ db.accounts[db.products[pk].seller].is_active

-----------------------------------------------------------------------------
(* VendorProductCreateUpdateSerializer *)

validate_price(value) == value > 0

validate_stock(value) == value >= 0

\* is_valid(): name, price and stock are required unless partial; a name that
\* is blank once trimmed is refused
IsValid(data) ==
    /\ data.partial \/ (data.name # {} /\ data.price # {} /\ data.stock # {})
    /\ \A n \in data.name : Strip(n) # <<>>
    /\ \A v \in data.price : validate_price(v)
    /\ \A v \in data.stock : validate_stock(v)

\* ModelSerializer.update / create: the validated fields are set on the
\* instance; a CharField value arrives stripped of surrounding whitespace
Validated(row, data) ==
    [row EXCEPT
        !.name = IF data.name = {} THEN @ ELSE Strip(CHOOSE n \in data.name : TRUE),
        !.description = IF data.description = {} THEN @
                        ELSE Strip(CHOOSE d \in data.description : TRUE),
        !.price = IF data.price = {} THEN @ ELSE CHOOSE v \in data.price : TRUE,
        !.stock = IF data.stock = {} THEN @ ELSE CHOOSE v \in data.stock : TRUE]

-----------------------------------------------------------------------------
(* The views, one ORM query per step.  t is timezone.now(). *)

\* An update that accepts a product in any status
EditableAlways(product) == TRUE

\* update_product: "product.status not in ['draft', 'rejected']" is refused
Editable(product) == product.status \in {"draft", "rejected"}

\* A submit that accepts a product in any status
SubmittableAlways(product) == TRUE

\* submit_product_for_approval: "product.status != 'draft'" is refused
Submittable(product) == product.status = "draft"

\* A moderation that accepts a product in any status
ModeratableAlways(product) == TRUE

\* admin_approve_product / admin_reject_product: "product.status != 'pending'"
\* is refused
Moderatable(product) == product.status = "pending"

\* A create that lets the body choose seller and status
CreatedRowFromBody(data, caller) ==
    [Validated(NoProduct, data) EXCEPT
        !.seller = IF data.seller = {} THEN caller ELSE CHOOSE u \in data.seller : TRUE,
        !.status = IF data.status = {} THEN "draft" ELSE CHOOSE u \in data.status : TRUE]

\* serializer.save(seller=request.user, status='draft'): the validated fields
\* of Meta.fields, then the seller and the status the view passes
CreatedRow(data, caller) ==
    [Validated(NoProduct, data) EXCEPT !.seller = caller, !.status = "draft"]

\* vendor_create_product; the serializer of a POST is never partial
StepCreate(db, r, t) ==
    IF ~IsVendorOrReadOnly(r.caller) THEN Respond(db, r, "Forbidden")
    ELSE IF ~(is_vendor(r.caller) /\ db.accounts[r.caller].is_verified_vendor)
    THEN Respond(db, r, "Forbidden")
    ELSE IF ~IsValid([r.data EXCEPT !.partial = FALSE]) THEN Respond(db, r, "BadInput")
    ELSE LET pk == Cardinality(DOMAIN db.products) + 1
             row == SaveSlug(CreatedRow(r.data, r.caller))
             new == [db EXCEPT !.products =
                        [q \in DOMAIN db.products \cup {pk} |->
                            IF q = pk THEN row ELSE db.products[q]]]
         IN  IF SlugTaken(db, pk, row.slug) THEN Respond(db, r, "ServerError")
             ELSE Respond(new, [r EXCEPT !.pk = pk, !.product = row], "OK")

\* get_product_detail
StepDetail(db, r, t) ==
    IF ~is_vendor(r.caller) THEN Respond(db, r, "Forbidden")
    ELSE IF ~OwnedBy(db, r.pk, r.caller) THEN Respond(db, r, "NotFound")
    ELSE Respond(db, [r EXCEPT !.product = db.products[r.pk]], "OK")

\* A reset that puts the status back to draft and keeps the reason
ResetStatusOnly(db, pk) == [db EXCEPT !.products[pk].status = "draft"]

\* update_product on a rejected product: status = 'draft', rejection_reason =
\* '', save(update_fields=['status', 'rejection_reason'])
ResetToDraft(db, pk) ==
    [db EXCEPT !.products[pk].status = "draft",
               !.products[pk].rejection_reason = <<>>]

\* update_product
StepUpdate(db, r, t) ==
    CASE r.pc = "start" ->
            IF ~is_vendor(r.caller) THEN Respond(db, r, "Forbidden")
            ELSE IF ~OwnedBy(db, r.pk, r.caller) THEN Respond(db, r, "NotFound")
            ELSE LET product == db.products[r.pk]
                 IN  IF ~Editable(product)
                     THEN Respond(db, [r EXCEPT !.product = product], "InvalidTransition")
                     ELSE IF ~IsValid(r.data)
                     THEN Respond(db, [r EXCEPT !.product = product], "BadInput")
                     ELSE Goto(db, [r EXCEPT !.product = product], "save")
      [] r.pc = "save" ->
            LET updated == SaveSlug(Validated(r.product, r.data))
                new == WriteProduct(db, r.pk, updated)
            IN  IF SlugTaken(db, r.pk, updated.slug) THEN Respond(db, r, "ServerError")
                ELSE IF r.product.status = "rejected"
                THEN Goto(new, [r EXCEPT !.product = updated], "reset")
                ELSE Respond(new, [r EXCEPT !.product = updated], "OK")
      [] r.pc = "reset" ->
            Respond(ResetToDraft(db, r.pk),
                    [r EXCEPT !.product.status = "draft",
                              !.product.rejection_reason = <<>>], "OK")

\* An add image that stores the flag the client sent
PrimaryAsSent(db, r) == r.data.is_primary

\* add_product_image: "if not product.images.exists(): image_data['is_primary']
\* = True"
PrimaryOfNew(db, r) == IF ImagesOf(db, r.pk) = {} THEN TRUE ELSE r.data.is_primary

\* add_product_image
StepAddImage(db, r, t) ==
    CASE r.pc = "start" ->
            IF ~is_vendor(r.caller) THEN Respond(db, r, "Forbidden")
            ELSE IF ~OwnedBy(db, r.pk, r.caller) THEN Respond(db, r, "NotFound")
            ELSE Goto(db, [r EXCEPT !.product = db.products[r.pk]], "exists")
      [] r.pc = "exists" ->
            LET is_primary == PrimaryOfNew(db, r)
                image == NewImageRow(db, r, is_primary)
            IN  IF ~r.data.valid THEN Respond(db, r, "BadInput")
                ELSE IF is_primary THEN Goto(db, [r EXCEPT !.image = image], "demote")
                ELSE Goto(db, [r EXCEPT !.image = image], "insert")
      [] r.pc = "demote" ->
            Goto(DemoteOthers(db, r.image), r, "insert")
      [] r.pc = "insert" ->
            LET image == [r.image EXCEPT !.id = db.nextImageId]
                new == [WriteImage(db, image) EXCEPT !.nextImageId = @ + 1]
            IN  Respond(new, [r EXCEPT !.image = image], "OK")

\* delete_product_image
StepDeleteImage(db, r, t) ==
    CASE r.pc = "start" ->
            IF ~is_vendor(r.caller) THEN Respond(db, r, "Forbidden")
            ELSE IF ~OwnedBy(db, r.pk, r.caller) THEN Respond(db, r, "NotFound")
            ELSE Goto(db, [r EXCEPT !.product = db.products[r.pk]], "getimg")
      [] r.pc = "getimg" ->
            IF r.image_pk \notin ImagesOf(db, r.pk) THEN Respond(db, r, "NotFound")
            ELSE LET row == db.images[r.image_pk]
                 IN  Goto(db, [r EXCEPT !.image = [id |-> r.image_pk, product |-> row.product,
                                                   is_primary |-> row.is_primary,
                                                   order |-> row.order]], "delete")
      [] r.pc = "delete" ->
            IF r.image.is_primary
            THEN Goto(DeleteImage(db, r.image.id), r, "first")
            ELSE Respond(DeleteImage(db, r.image.id), r, "OK")
      [] r.pc = "first" ->
            IF ImagesOf(db, r.pk) = {} THEN Respond(db, r, "OK")
            ELSE LET i == First(db, r.pk)
                     row == db.images[i]
                 IN  Goto(db, [r EXCEPT !.image = [id |-> i, product |-> row.product,
                                                   is_primary |-> TRUE,
                                                   order |-> row.order]], "demote")
      [] r.pc = "demote" -> Goto(DemoteOthers(db, r.image), r, "saveimg")
      [] r.pc = "saveimg" -> Respond(WriteImage(db, r.image), r, "OK")

\* set_primary_product_image
StepSetPrimary(db, r, t) ==
    CASE r.pc = "start" ->
            IF ~is_vendor(r.caller) THEN Respond(db, r, "Forbidden")
            ELSE IF ~OwnedBy(db, r.pk, r.caller) THEN Respond(db, r, "NotFound")
            ELSE Goto(db, [r EXCEPT !.product = db.products[r.pk]], "getimg")
      [] r.pc = "getimg" ->
            IF r.image_pk \notin ImagesOf(db, r.pk) THEN Respond(db, r, "NotFound")
            ELSE LET row == db.images[r.image_pk]
                 IN  Goto(db, [r EXCEPT !.image = [id |-> r.image_pk, product |-> row.product,
                                                   is_primary |-> row.is_primary,
                                                   order |-> row.order]], "updateall")
      [] r.pc = "updateall" ->
            Goto(SetNotPrimary(db, ImagesOf(db, r.pk)),
                 [r EXCEPT !.image.is_primary = TRUE], "demote")
      [] r.pc = "demote" -> Goto(DemoteOthers(db, r.image), r, "saveimg")
      [] r.pc = "saveimg" -> Respond(WriteImage(db, r.image), r, "OK")

\* A submit validation that stops at the first rule that fails
SubmitErrorsFailFast(db, r) ==
    IF ImagesOf(db, r.pk) = {} THEN <<"image">>
    ELSE IF Strip(r.product.description) = <<>> THEN <<"description">>
    ELSE IF r.product.price <= 0 THEN <<"price">>
    ELSE IF r.product.stock < 0 THEN <<"stock">>
    ELSE <<>>

\* A submit validation that forgets the price rule
SubmitErrorsNoPrice(db, r) ==
    (IF ImagesOf(db, r.pk) = {} THEN <<"image">> ELSE <<>>)
    \o (IF Strip(r.product.description) = <<>> THEN <<"description">> ELSE <<>>)
    \o (IF r.product.stock < 0 THEN <<"stock">> ELSE <<>>)

\* A submit validation that forgets the image rule
SubmitErrorsNoImage(db, r) ==
    (IF Strip(r.product.description) = <<>> THEN <<"description">> ELSE <<>>)
    \o (IF r.product.price <= 0 THEN <<"price">> ELSE <<>>)
    \o (IF r.product.stock < 0 THEN <<"stock">> ELSE <<>>)

\* The messages of submit_product_for_approval, in the order they are appended
SubmitErrors(db, r) ==
    (IF ImagesOf(db, r.pk) = {} THEN <<"image">> ELSE <<>>)
    \o (IF Strip(r.product.description) = <<>> THEN <<"description">> ELSE <<>>)
    \o (IF r.product.price <= 0 THEN <<"price">> ELSE <<>>)
    \o (IF r.product.stock < 0 THEN <<"stock">> ELSE <<>>)

\* submit_product_for_approval
StepSubmit(db, r, t) ==
    CASE r.pc = "start" ->
            IF ~is_vendor(r.caller) THEN Respond(db, r, "Forbidden")
            ELSE IF ~OwnedBy(db, r.pk, r.caller) THEN Respond(db, r, "NotFound")
            ELSE LET product == db.products[r.pk]
                 IN  IF ~Submittable(product)
                     THEN Respond(db, [r EXCEPT !.product = product], "InvalidTransition")
                     ELSE Goto(db, [r EXCEPT !.product = product], "exists")
      [] r.pc = "exists" ->
            LET errors == SubmitErrors(db, r)
            IN  IF errors # <<>>
                THEN Respond(db, [r EXCEPT !.errors = errors], "ValidationFailed")
                ELSE Goto(db, r, "save")
      [] r.pc = "save" ->
            Respond([db EXCEPT !.products[r.pk].status = "pending"],
                    [r EXCEPT !.product.status = "pending"], "OK")

\* admin_approve_product
StepApprove(db, r, t) ==
    CASE r.pc = "start" ->
            IF ~DrfIsAdminUser(r.caller) THEN Respond(db, r, "Forbidden")
            ELSE IF r.pk \notin DOMAIN db.products THEN Respond(db, r, "NotFound")
            ELSE LET product == db.products[r.pk]
                 IN  IF ~Moderatable(product)
                     THEN Respond(db, [r EXCEPT !.product = product], "InvalidTransition")
                     ELSE Goto(db, [r EXCEPT !.product = product], "save")
      [] r.pc = "save" ->
            LET product == [r.product EXCEPT !.status = "active", !.approved_by = r.caller,
                                             !.approved_at = t, !.rejection_reason = <<>>]
                new == [db EXCEPT !.products[r.pk].status = product.status,
                                  !.products[r.pk].approved_by = product.approved_by,
                                  !.products[r.pk].approved_at = product.approved_at,
                                  !.products[r.pk].rejection_reason = product.rejection_reason]
            IN  Respond(new, [r EXCEPT !.product = product], "OK")

\* A reject that records the reason and neither the moderator nor the time
StepRejectNoStamp(db, r, t) ==
    CASE r.pc = "start" ->
            IF ~DrfIsAdminUser(r.caller) THEN Respond(db, r, "Forbidden")
            ELSE IF r.pk \notin DOMAIN db.products THEN Respond(db, r, "NotFound")
            ELSE LET product == db.products[r.pk]
                 IN  IF ~Moderatable(product)
                     THEN Respond(db, [r EXCEPT !.product = product], "InvalidTransition")
                     ELSE IF Strip(r.data.rejection_reason) = <<>>
                     THEN Respond(db, [r EXCEPT !.product = product], "BadInput")
                     ELSE Goto(db, [r EXCEPT !.product = product], "save")
      [] r.pc = "save" ->
            LET product == [r.product EXCEPT !.status = "rejected",
                                             !.rejection_reason = Strip(r.data.rejection_reason)]
                new == [db EXCEPT !.products[r.pk].status = product.status,
                                  !.products[r.pk].rejection_reason = product.rejection_reason]
            IN  Respond(new, [r EXCEPT !.product = product], "OK")

\* admin_reject_product
StepReject(db, r, t) ==
    CASE r.pc = "start" ->
            IF ~DrfIsAdminUser(r.caller) THEN Respond(db, r, "Forbidden")
            ELSE IF r.pk \notin DOMAIN db.products THEN Respond(db, r, "NotFound")
            ELSE LET product == db.products[r.pk]
                 IN  IF ~Moderatable(product)
                     THEN Respond(db, [r EXCEPT !.product = product], "InvalidTransition")
                     ELSE IF Strip(r.data.rejection_reason) = <<>>
                     THEN Respond(db, [r EXCEPT !.product = product], "BadInput")
                     ELSE Goto(db, [r EXCEPT !.product = product], "save")
      [] r.pc = "save" ->
            LET product == [r.product EXCEPT !.status = "rejected",
                                             !.rejection_reason = Strip(r.data.rejection_reason),
                                             !.approved_by = r.caller, !.approved_at = t]
                new == [db EXCEPT !.products[r.pk].status = product.status,
                                  !.products[r.pk].rejection_reason = product.rejection_reason,
                                  !.products[r.pk].approved_by = product.approved_by,
                                  !.products[r.pk].approved_at = product.approved_at]
            IN  Respond(new, [r EXCEPT !.product = product], "OK")

\* public_list_products
StepPublicList(db, r, t) ==
    Respond(db, [r EXCEPT !.listed = {pk \in DOMAIN db.products : Visible(db, pk)}], "OK")

\* public_product_detail, with Product.increment_views
StepPublicDetail(db, r, t) ==
    CASE r.pc = "start" ->
            LET found == {pk \in DOMAIN db.products :
                            db.products[pk].slug = r.slug /\ Visible(db, pk)}
            IN  IF found = {} THEN Respond(db, r, "NotFound")
                ELSE LET pk == CHOOSE q \in found : TRUE
                     IN  Goto(db, [r EXCEPT !.pk = pk, !.product = db.products[pk]],
                              "increment")
      [] r.pc = "increment" ->
            LET product == [r.product EXCEPT !.views_count = @ + 1]
            IN  Respond([db EXCEPT !.products[r.pk].views_count = product.views_count],
                        [r EXCEPT !.product = product], "OK")

\* Product.decrement_stock(quantity) on the stored row
StepDecrementStock(db, r, t) ==
    IF r.pk \notin DOMAIN db.products THEN Respond(db, r, "NotFound")
    ELSE LET product == db.products[r.pk]
         IN  IF product.stock >= r.quantity
             THEN Respond([db EXCEPT !.products[r.pk].stock = product.stock - r.quantity,
                                     !.products[r.pk].sales_count =
                                            product.sales_count + r.quantity],
                          r, "OK")
             ELSE Respond(db, r, "Refused")

\* admin_verify_vendor
StepVerifyVendor(db, r, t) ==
    CASE r.pc = "start" ->
            IF ~DrfIsAdminUser(r.caller) THEN Respond(db, r, "Forbidden")
            ELSE IF r.vendor \notin DOMAIN db.accounts \/ db.accounts[r.vendor].role # "vendor"
            THEN Respond(db, r, "NotFound")
            ELSE Goto(db, r, "save")
      [] r.pc = "save" ->
            LET is_verified == IF r.data.is_verified = {} THEN TRUE
                               ELSE CHOOSE b \in r.data.is_verified : TRUE
            IN  Respond([db EXCEPT !.accounts[r.vendor].is_verified_vendor = is_verified],
                        r, "OK")

\* admin_toggle_vendor_status
StepToggleVendorStatus(db, r, t) ==
    CASE r.pc = "start" ->
            IF ~DrfIsAdminUser(r.caller) THEN Respond(db, r, "Forbidden")
            ELSE IF r.vendor \notin DOMAIN db.accounts \/ db.accounts[r.vendor].role # "vendor"
            THEN Respond(db, r, "NotFound")
            ELSE LET is_active == IF r.data.is_active = {}
                                  THEN ~db.accounts[r.vendor].is_active
                                  ELSE CHOOSE b \in r.data.is_active : TRUE
                 IN  Goto(db, [r EXCEPT !.data.is_active = {is_active}], "save")
      [] r.pc = "save" ->
            Respond([db EXCEPT !.accounts[r.vendor].is_active =
                                    CHOOSE b \in r.data.is_active : TRUE],
                    r, "OK")

\* One query of request r against the store
Step(db, r, t) ==
    CASE r.op = "create" -> StepCreate(db, r, t)
      [] r.op = "detail" -> StepDetail(db, r, t)
      [] r.op = "update" -> StepUpdate(db, r, t)
      [] r.op = "add_image" -> StepAddImage(db, r, t)
      [] r.op = "delete_image" -> StepDeleteImage(db, r, t)
      [] r.op = "set_primary" -> StepSetPrimary(db, r, t)
      [] r.op = "submit" -> StepSubmit(db, r, t)
      [] r.op = "approve" -> StepApprove(db, r, t)
      [] r.op = "reject" -> StepReject(db, r, t)
      [] r.op = "public_list" -> StepPublicList(db, r, t)
      [] r.op = "public_detail" -> StepPublicDetail(db, r, t)
      [] r.op = "decrement_stock" -> StepDecrementStock(db, r, t)
      [] r.op = "verify_vendor" -> StepVerifyVendor(db, r, t)
      [] r.op = "toggle_vendor_status" -> StepToggleVendorStatus(db, r, t)

\* A request served from its first query to its response, nothing in between
RECURSIVE Run(_, _, _)
Run(db, r, t) ==
    IF r.pc = "done" THEN [db |-> db, r |-> r]
    ELSE LET s == Step(db, r, t) IN Run(s.db, s.r, t)

-----------------------------------------------------------------------------
(* Inputs *)

Pks == 1 .. MaxProducts

ImagePks == 1 .. MaxGallery

Orders == {0, 1}

\* Values of timezone.now()
Times == 0 .. MaxTime

\* Bodies of create / update requests (PUT and PATCH)
ProductData ==
    { [NoData EXCEPT !.name = {<<"a">>}, !.description = {<<" ", "a">>}, !.price = {1},
                     !.stock = {0}],
      [NoData EXCEPT !.name = {<<"a">>}, !.price = {1}, !.stock = {0}],
      [NoData EXCEPT !.name = {<<"a">>}, !.description = {<<" ", "a">>}, !.price = {0},
                     !.stock = {0}],
      [NoData EXCEPT !.name = {<<"a">>}, !.description = {<<" ", "a">>}, !.price = {1},
                     !.stock = {-1}],
      [NoData EXCEPT !.name = {<<"a">>}, !.description = {<<" ", "a">>}],
      [NoData EXCEPT !.partial = TRUE],
      [NoData EXCEPT !.partial = TRUE, !.description = {<<" ">>}] }

\* A body that also carries fields the serializer does not list
ForgedData ==
    { [NoData EXCEPT !.name = {<<"a">>}, !.description = {<<" ", "a">>}, !.price = {1},
                     !.stock = {0}, !.status = {"active"}, !.seller = {"v2"}] }

\* Bodies of the create / update requests served one at a time
VendorData == ProductData \cup ForgedData

\* The name the vendor gives to its k-th product: "a", "aa", ...
NameOf(k) == [i \in 1 .. k |-> "a"]

\* Body d with the name n where it carries a name
Named(d, n) == IF d.name = {} THEN d ELSE [d EXCEPT !.name = {n}]

\* Bodies of add-image requests
ImageData ==
    { [NoData EXCEPT !.is_primary = b, !.order = o] : b \in BOOLEAN, o \in Orders }
    \cup { [NoData EXCEPT !.valid = FALSE] }

\* Bodies of reject requests (no rejection_reason is the empty string)
RejectData ==
    { [NoData EXCEPT !.rejection_reason = s] : s \in {<<>>, <<" ">>, <<" ", "b">>} }

\* Product names: two that differ in case only, and one without a letter
Names == {<<"A">>, <<"a">>, <<"!">>}

\* Slugs asked of the public detail endpoint; the route '<slug:slug>/' takes
\* no empty slug
Slugs == {Slugify(n) : n \in Names} \ {<<>>}

\* Bodies of the create / update requests of the catalogue: complete and valid,
\* under each name; one also carries fields the serializer does not list
CatalogData ==
    { [NoData EXCEPT !.name = {n}, !.description = {<<"a">>}, !.price = {1}, !.stock = {1}] :
        n \in Names }
    \cup { [NoData EXCEPT !.name = {<<"a">>}, !.description = {<<"a">>}, !.price = {1},
                          !.stock = {1}, !.seller = {"v2"}, !.slug = {<<"b">>},
                          !.is_featured = {TRUE}, !.views_count = {1},
                          !.sales_count = {1}, !.approved_by = {"v1"}] }

\* Bodies of admin_verify_vendor: is_verified absent, or false
VerifyData == { NoData, [NoData EXCEPT !.is_verified = {FALSE}] }

\* A GET of the public detail of the product with this slug
PublicDetailReq(slug) == [NewReq("public_detail", NoUser, 0, 0, NoData) EXCEPT !.slug = slug]

\* A call of admin view op on the vendor account u
VendorReq(op, caller, u, data) == [NewReq(op, caller, 0, 0, data) EXCEPT !.vendor = u]

\* Values the tests write straight through the ORM
OrmDescriptions == {<<" ">>, <<"a">>}

OrmPrices == {0, 1}

-----------------------------------------------------------------------------
(* State *)

Idle == [NewReq("idle", NoUser, 0, 0, NoData) EXCEPT !.pc = "idle"]

Store == [Db(products, images, nextImageId) EXCEPT !.accounts = accounts]

Init ==
    /\ products = <<>>
    /\ images = <<>>
    /\ nextImageId = 1
    /\ accounts = Users
    /\ reqs = [s \in 1 .. MaxInFlight |-> Idle]
    /\ started = 0

\* Request r served alone at time t, from its first query to its response
Serve(r, t) ==
    LET s == Run(Store, r, t)
    IN  /\ products' = s.db.products
        /\ images' = s.db.images
        /\ nextImageId' = s.db.nextImageId
        /\ accounts' = s.db.accounts

\* The name of the next product
FreshName == NameOf(Cardinality(DOMAIN products) + 1)

\* The vendor gives each product a name of its own
CreateProduct ==
    /\ Cardinality(DOMAIN products) < MaxProducts
    /\ \E c \in Callers, d \in VendorData :
            Serve(NewReq("create", c, 0, 0, Named(d, FreshName)), 0)
    /\ UNCHANGED <<reqs, started>>

ProductDetail ==
    /\ \E c \in Callers, pk \in Pks : Serve(NewReq("detail", c, pk, 0, NoData), 0)
    /\ UNCHANGED <<reqs, started>>

\* A body that carries a name resends the name the product has
UpdateProduct ==
    /\ \E c \in Callers, pk \in Pks, d \in VendorData :
            Serve(NewReq("update", c, pk, 0, Named(d, NameOf(pk))), 0)
    /\ UNCHANGED <<reqs, started>>

AddImageUpTo(max) ==
    /\ nextImageId <= max
    /\ \E c \in Callers, pk \in Pks, d \in ImageData :
            Serve(NewReq("add_image", c, pk, 0, d), 0)
    /\ UNCHANGED <<reqs, started>>

AddImage == AddImageUpTo(MaxImages)

DeleteProductImage ==
    /\ \E c \in Callers, pk \in Pks, i \in ImagePks :
            Serve(NewReq("delete_image", c, pk, i, NoData), 0)
    /\ UNCHANGED <<reqs, started>>

SetPrimaryImage ==
    /\ \E c \in Callers, pk \in Pks, i \in ImagePks :
            Serve(NewReq("set_primary", c, pk, i, NoData), 0)
    /\ UNCHANGED <<reqs, started>>

SubmitProduct ==
    /\ \E c \in Callers, pk \in Pks : Serve(NewReq("submit", c, pk, 0, NoData), 0)
    /\ UNCHANGED <<reqs, started>>

ApproveProduct ==
    /\ \E c \in Callers, pk \in Pks, t \in Times :
            Serve(NewReq("approve", c, pk, 0, NoData), t)
    /\ UNCHANGED <<reqs, started>>

RejectProduct ==
    /\ \E c \in Callers, pk \in Pks, d \in RejectData, t \in Times :
            Serve(NewReq("reject", c, pk, 0, d), t)
    /\ UNCHANGED <<reqs, started>>

\* A draft product edited and saved straight through the ORM, as the tests do
\* before they call submit (description = '   ', price = 0.00, or both made
\* valid): Product.save() writes the row
OrmSave ==
    /\ \E pk \in DOMAIN products, d \in OrmDescriptions, p \in OrmPrices :
            /\ products[pk].status = "draft"
            /\ products' = [products EXCEPT ![pk].description = d, ![pk].price = p]
    /\ UNCHANGED <<images, nextImageId, accounts, reqs, started>>

\* Requests one at a time, from the empty store
Next ==
    \/ CreateProduct
    \/ ProductDetail
    \/ UpdateProduct
    \/ AddImage
    \/ DeleteProductImage
    \/ SetPrimaryImage
    \/ SubmitProduct
    \/ ApproveProduct
    \/ RejectProduct
    \/ OrmSave

Spec == Init /\ [][Next]_vars

-----------------------------------------------------------------------------
(* One product and its gallery: requests one at a time, from the store a  *)
(* vendor's first successful create leaves                                *)

GalleryInit ==
    /\ \E d \in ProductData :
          LET s == Run(Db(<<>>, <<>>, 1), NewReq("create", "v1", 0, 0, d), 0)
          IN  /\ s.r.outcome = "OK"
              /\ products = s.db.products
    /\ images = <<>>
    /\ nextImageId = 1
    /\ accounts = Users
    /\ reqs = [s \in 1 .. MaxInFlight |-> Idle]
    /\ started = 0

GalleryAddImage == AddImageUpTo(MaxGallery)

GalleryNext ==
    \/ ProductDetail
    \/ UpdateProduct
    \/ GalleryAddImage
    \/ DeleteProductImage
    \/ SetPrimaryImage
    \/ SubmitProduct
    \/ ApproveProduct
    \/ RejectProduct
    \/ OrmSave

GallerySpec == GalleryInit /\ [][GalleryNext]_vars

-----------------------------------------------------------------------------
(* Requests on one product in flight together.  The owner's and a         *)
(* moderator's requests are begun in any order, at most MaxInFlight at a   *)
(* time, and their queries interleave; a request that has responded frees  *)
(* its slot.                                                               *)

Slots == 1 .. MaxInFlight

InFlight == {s \in Slots : reqs[s].pc # "idle"}

Owner == "v1"

Moderator == "su"

\* A slot is free and the run has requests left
CanBegin == started < MaxRequests /\ InFlight # Slots

\* Request r enters the first free slot
Begin(r) ==
    /\ \E s \in Slots :
          /\ reqs[s].pc = "idle"
          /\ \A z \in Slots : z < s => reqs[z].pc # "idle"
          /\ reqs' = [reqs EXCEPT ![s] = r]
    /\ started' = started + 1
    /\ UNCHANGED <<products, images, nextImageId, accounts>>

BeginUpdate ==
    /\ CanBegin
    /\ \E d \in ProductData : Begin(NewReq("update", Owner, 1, 0, d))

BeginAddImage ==
    /\ CanBegin
    /\ nextImageId + Cardinality({s \in Slots : reqs[s].op = "add_image"}) <= MaxGallery
    /\ \E d \in ImageData : Begin(NewReq("add_image", Owner, 1, 0, d))

BeginDeleteImage ==
    /\ CanBegin
    /\ \E i \in ImagePks : Begin(NewReq("delete_image", Owner, 1, i, NoData))

BeginSetPrimary ==
    /\ CanBegin
    /\ \E i \in ImagePks : Begin(NewReq("set_primary", Owner, 1, i, NoData))

BeginSubmit ==
    /\ CanBegin
    /\ Begin(NewReq("submit", Owner, 1, 0, NoData))

BeginApprove ==
    /\ CanBegin
    /\ Begin(NewReq("approve", Moderator, 1, 0, NoData))

BeginReject ==
    /\ CanBegin
    /\ \E d \in RejectData : Begin(NewReq("reject", Moderator, 1, 0, d))

\* The next query of the request in slot s
Query(s) ==
    /\ reqs[s].pc # "idle"
    /\ \E t \in Times :
          LET n == Step(Store, reqs[s], t)
          IN  /\ products' = n.db.products
              /\ images' = n.db.images
              /\ nextImageId' = n.db.nextImageId
              /\ accounts' = n.db.accounts
              /\ reqs' = [reqs EXCEPT ![s] = IF n.r.pc = "done" THEN Idle ELSE n.r]
    /\ UNCHANGED started

ConcNext ==
    \/ BeginUpdate
    \/ BeginAddImage
    \/ BeginDeleteImage
    \/ BeginSetPrimary
    \/ BeginSubmit
    \/ BeginApprove
    \/ BeginReject
    \/ \E s \in Slots : Query(s)

ConcSpec == GalleryInit /\ [][ConcNext]_vars

-----------------------------------------------------------------------------
(* The catalogue: the products of vendor v1 under the names it chooses,     *)
(* their moderation, the vendor flags the administrator writes and the      *)
(* public reads, one request at a time from the empty store.  A caller     *)
(* whose account is not active cannot authenticate and sends no request.    *)

CatalogCreate ==
    /\ Cardinality(DOMAIN products) < MaxProducts
    /\ accounts[Owner].is_active
    /\ \E d \in CatalogData : Serve(NewReq("create", Owner, 0, 0, d), 0)
    /\ UNCHANGED <<reqs, started>>

CatalogUpdate ==
    /\ accounts[Owner].is_active
    /\ \E pk \in DOMAIN products, d \in CatalogData :
            Serve(NewReq("update", Owner, pk, 0, d), 0)
    /\ UNCHANGED <<reqs, started>>

\* The first image of a product
CatalogAddImage ==
    /\ nextImageId <= MaxImages
    /\ accounts[Owner].is_active
    /\ \E pk \in DOMAIN products :
            /\ ImagesOf(Store, pk) = {}
            /\ Serve(NewReq("add_image", Owner, pk, 0, NoData), 0)
    /\ UNCHANGED <<reqs, started>>

CatalogSubmit ==
    /\ accounts[Owner].is_active
    /\ \E pk \in DOMAIN products : Serve(NewReq("submit", Owner, pk, 0, NoData), 0)
    /\ UNCHANGED <<reqs, started>>

CatalogApprove ==
    /\ \E pk \in DOMAIN products : Serve(NewReq("approve", Moderator, pk, 0, NoData), 0)
    /\ UNCHANGED <<reqs, started>>

CatalogReject ==
    /\ \E pk \in DOMAIN products :
            Serve(NewReq("reject", Moderator, pk, 0,
                         [NoData EXCEPT !.rejection_reason = <<"b">>]), 0)
    /\ UNCHANGED <<reqs, started>>

PublicList ==
    /\ Serve(NewReq("public_list", NoUser, 0, 0, NoData), 0)
    /\ UNCHANGED <<reqs, started>>

PublicDetail ==
    /\ \A pk \in DOMAIN products : products[pk].views_count < MaxViews
    /\ \E slug \in Slugs : Serve(PublicDetailReq(slug), 0)
    /\ UNCHANGED <<reqs, started>>

VerifyVendor ==
    /\ \E d \in VerifyData : Serve(VendorReq("verify_vendor", Moderator, Owner, d), 0)
    /\ UNCHANGED <<reqs, started>>

ToggleVendorStatus ==
    /\ Serve(VendorReq("toggle_vendor_status", Moderator, Owner, NoData), 0)
    /\ UNCHANGED <<reqs, started>>

CatalogNext ==
    \/ CatalogCreate
    \/ CatalogUpdate
    \/ CatalogAddImage
    \/ CatalogSubmit
    \/ CatalogApprove
    \/ CatalogReject
    \/ PublicList
    \/ PublicDetail
    \/ VerifyVendor
    \/ ToggleVendorStatus

CatalogSpec == Init /\ [][CatalogNext]_vars

-----------------------------------------------------------------------------
(* The counters of one published product: public detail reads in flight    *)
(* together, their queries interleaved, and sales one at a time.            *)

\* The store after v1's product "a" has been created, given an image,
\* submitted and approved
Published ==
    LET body == [NoData EXCEPT !.name = {<<"a">>}, !.description = {<<"a">>},
                               !.price = {1}, !.stock = {1}]
        created == Run(Db(<<>>, <<>>, 1), NewReq("create", Owner, 0, 0, body), 0)
        pictured == Run(created.db, NewReq("add_image", Owner, 1, 0, NoData), 0)
        submitted == Run(pictured.db, NewReq("submit", Owner, 1, 0, NoData), 0)
    IN  Run(submitted.db, NewReq("approve", Moderator, 1, 0, NoData), 0).db

CountersInit ==
    /\ products = Published.products
    /\ images = Published.images
    /\ nextImageId = Published.nextImageId
    /\ accounts = Published.accounts
    /\ reqs = [s \in 1 .. MaxInFlight |-> Idle]
    /\ started = 0

\* A sale of one unit: Product.decrement_stock() on the stored row
DecrementStock ==
    /\ \E pk \in DOMAIN products : Serve(NewReq("decrement_stock", NoUser, pk, 0, NoData), 0)
    /\ UNCHANGED <<reqs, started>>

BeginPublicDetail ==
    /\ CanBegin
    /\ Begin(PublicDetailReq(<<"a">>))

CountersNext ==
    \/ BeginPublicDetail
    \/ DecrementStock
    \/ \E s \in Slots : Query(s)

CountersSpec == CountersInit /\ [][CountersNext]_vars

-----------------------------------------------------------------------------
(* Properties of the sequential system *)

Primaries(pk) == {i \in ImagesOf(Store, pk) : images[i].is_primary}

PrimaryOK(pk) ==
    Cardinality(Primaries(pk)) = IF ImagesOf(Store, pk) = {} THEN 0 ELSE 1

\* C1: when the operations run one at a time, after each of them every
\* product with at least one image has exactly one primary image, and a
\* product with no image has none.
C1_ExactlyOnePrimary == \A pk \in DOMAIN products : PrimaryOK(pk)

\* The first image was uploaded as primary and then deleted, two later images
\* remain, and the one uploaded last is now the primary.
C1_Witness ==
    /\ nextImageId = 4
    /\ DOMAIN images = {2, 3}
    /\ images[2].product = 1 /\ images[3].product = 1
    /\ images[3].is_primary
    /\ ~images[2].is_primary

AllowedEdges ==
    { <<"draft", "pending">>, <<"pending", "active">>,
      <<"pending", "rejected">>, <<"rejected", "draft">> }

\* C2: a product's status is always one of draft, pending, active, inactive,
\* rejected; a new product starts in draft; and when the operations run one at
\* a time every change of status is draft -> pending (by submit), pending ->
\* active (by approve), pending -> rejected (by reject) or rejected -> draft
\* (by update), so no step leads into or out of inactive.
C2_StatusEdges ==
    [][ /\ \A pk \in DOMAIN products' :
            /\ products'[pk].status \in STATUS_CHOICES
            /\ pk \notin DOMAIN products => products'[pk].status = "draft"
        /\ \A pk \in DOMAIN products :
            LET from == products[pk].status
                to == products'[pk].status
            IN  /\ pk \in DOMAIN products'
                /\ from # to => <<from, to>> \in AllowedEdges
                /\ from = "draft" /\ to = "pending" => SubmitProduct
                /\ from = "pending" /\ to = "active" => ApproveProduct
                /\ from = "pending" /\ to = "rejected" => RejectProduct
                /\ from = "rejected" /\ to = "draft" => UpdateProduct
      ]_vars

\* One product was rejected, edited back to draft, and has the moderator of
\* the rejection still on it; another has been approved.
C2_Witness ==
    \E p, q \in DOMAIN products :
        /\ products[p].status = "draft"
        /\ products[p].approved_by # NoUser
        /\ products[q].status = "active"

\* The requests caller c can make of product pk on the vendor operations
VendorRequests(c, pk) ==
    {NewReq("detail", c, pk, 0, NoData), NewReq("submit", c, pk, 0, NoData)}
    \cup {NewReq("update", c, pk, 0, d) : d \in ProductData}
    \cup {NewReq("add_image", c, pk, 0, d) : d \in ImageData}
    \cup {NewReq(op, c, pk, i, NoData) : op \in {"delete_image", "set_primary"},
                                         i \in ImagePks}

\* C8: on detail, update, add image, delete image, set primary and submit, a
\* caller who is not a vendor is answered Forbidden, and a vendor who does not
\* own the product is answered NotFound, the answer given for an id that does
\* not exist, without the product's data; in both cases nothing is changed.
C8_VendorAccess ==
    \A c \in Callers, pk \in Pks :
        LET owned == pk \in DOMAIN products /\ products[pk].seller = c
        IN  ~(is_vendor(c) /\ owned) =>
                \A r \in VendorRequests(c, pk) :
                    LET s == Run(Store, r, 0)
                    IN  /\ s.r.outcome = IF is_vendor(c) THEN "NotFound" ELSE "Forbidden"
                        /\ s.r.product = NoProduct
                        /\ s.r.image = NoImage
                        /\ s.db = Store

\* Product 1 of vendor v1 has an image; vendor v2 asking to delete that image
\* and asking the same of product 2, which does not exist, get the same
\* NotFound; the customer gets Forbidden.
C8_Witness ==
    /\ 1 \in DOMAIN products /\ products[1].seller = "v1"
    /\ 2 \notin DOMAIN products
    /\ 1 \in ImagesOf(Store, 1)
    /\ Run(Store, NewReq("delete_image", "v2", 1, 1, NoData), 0).r.outcome = "NotFound"
    /\ Run(Store, NewReq("delete_image", "v2", 2, 1, NoData), 0).r.outcome = "NotFound"
    /\ Run(Store, NewReq("delete_image", "cu", 1, 1, NoData), 0).r.outcome = "Forbidden"
    /\ Run(Store, NewReq("delete_image", "v1", 1, 1, NoData), 0).r.outcome = "OK"

ModerationOps == {"approve", "reject"}

\* C9: approve and reject admit exactly the callers with the moderation
\* capability (role admin or superuser, and active): on a pending product
\* such a caller's approval, and rejection with a reason, succeed, and every
\* other caller is answered Forbidden with nothing changed.
C9_ModerationCapability ==
    \A op \in ModerationOps, c \in Callers, pk \in DOMAIN products, t \in Times :
        products[pk].status = "pending" =>
            LET d == [NoData EXCEPT !.rejection_reason = <<"b">>]
                s == Run(Store, NewReq(op, c, pk, 0, d), t)
            IN  IF can_moderate_products(c)
                THEN s.r.outcome = "OK"
                ELSE s.r.outcome = "Forbidden" /\ s.db = Store

\* What submit requires of product pk and caller c
SubmitReady(c, pk) ==
    /\ pk \in DOMAIN products
    /\ products[pk].seller = c
    /\ products[pk].status = "draft"
    /\ ImagesOf(Store, pk) # {}
    /\ Strip(products[pk].description) # <<>>
    /\ products[pk].price > 0
    /\ products[pk].stock >= 0

\* C10: submit moves the product to pending, changing nothing else, exactly
\* when the caller owns it, it is draft, it has an image, its description is
\* not blank once trimmed, its price is positive and its stock is not
\* negative; in every other case submit answers an error and changes nothing.
C10_SubmitIff ==
    \A c \in Callers, pk \in Pks :
        LET s == Run(Store, NewReq("submit", c, pk, 0, NoData), 0)
        IN  IF SubmitReady(c, pk)
            THEN /\ s.r.outcome = "OK"
                 /\ s.db = [Store EXCEPT !.products[pk].status = "pending"]
            ELSE /\ s.r.outcome \in {"Forbidden", "NotFound", "InvalidTransition",
                                     "ValidationFailed"}
                 /\ s.db = Store

\* A product that was submitted and rejected before is draft again, has an
\* image and a description, but its price is zero, so submit refuses it.
C10_Witness ==
    /\ 1 \in DOMAIN products
    /\ products[1].status = "draft"
    /\ products[1].approved_by # NoUser
    /\ ImagesOf(Store, 1) # {}
    /\ Strip(products[1].description) # <<>>
    /\ products[1].price = 0
    /\ Run(Store, NewReq("submit", "v1", 1, 0, NoData), 0).r.errors = <<"price">>

-----------------------------------------------------------------------------
(* Properties of the concurrent system *)

StatusOf(pk) == products[pk].status

Between(s, op, pcs) == reqs[s].op = op /\ reqs[s].pc \in pcs

\* C3: when add image, delete image and set primary of one product run
\* concurrently, once they have all completed the product has one primary
\* image if it has images: never two, never none.
C3_ConcurrentPrimary == InFlight = {} => \A pk \in DOMAIN products : PrimaryOK(pk)

\* The next query of the request in slot s reads the images of its product
ReadsImages(s) ==
    \/ Between(s, "add_image", {"exists", "demote"})
    \/ Between(s, "delete_image", {"getimg", "first", "demote"})
    \/ Between(s, "set_primary", {"getimg"})
    \/ Between(s, "submit", {"exists"})

\* C4: set primary demotes the old primary and promotes the new one as one
\* atomic change: while a set primary is between its writes, another request
\* about to read the gallery does not find it with images and no primary.
C4_SetPrimaryAtomic ==
    \A s, o \in Slots :
        /\ s # o
        /\ Between(s, "set_primary", {"demote", "saveimg"})
        /\ ReadsImages(o)
        => Primaries(reqs[s].pk) # {}

\* C5: an update that runs concurrently with submit, approve or reject never
\* writes back the status it read: no step takes a pending or active product
\* to draft, and no update step changes status, approved_by, approved_at or
\* rejection_reason of a product that is pending or active.
C5_NoStaleStatus ==
    [][ \A pk \in DOMAIN products :
            StatusOf(pk) \in {"pending", "active"} =>
                /\ products'[pk].status # "draft"
                /\ (\E s \in Slots : reqs[s].op = "update" /\ reqs'[s] # reqs[s])
                    => /\ products'[pk].status = products[pk].status
                       /\ products'[pk].approved_by = products[pk].approved_by
                       /\ products'[pk].approved_at = products[pk].approved_at
                       /\ products'[pk].rejection_reason = products[pk].rejection_reason
      ]_vars

\* C6: when approve and reject of one pending product run concurrently, one
\* of them wins and the other changes nothing: no step takes the product from
\* active to rejected or from rejected to active.
C6_OneDecision ==
    [][ \A pk \in DOMAIN products :
            /\ ~(StatusOf(pk) = "active" /\ products'[pk].status = "rejected")
            /\ ~(StatusOf(pk) = "rejected" /\ products'[pk].status = "active")
      ]_vars

\* C7: when submit runs concurrently with the deletion of the product's only
\* image, submit does not leave the product pending with no image: in the
\* state where the product becomes pending it has at least one image.
C7_PendingHasImage ==
    [][ \A pk \in DOMAIN products :
            StatusOf(pk) # "pending" /\ products'[pk].status = "pending"
                => \E i \in DOMAIN images' : images'[i].product = pk
      ]_vars

-----------------------------------------------------------------------------
(* Properties of the single operations *)

\* The submission rules, in the order the spec lists them
SubmitRules == <<"image", "description", "price", "stock">>

\* Product pk breaks the submission rule
RuleViolated(pk, rule) ==
    CASE rule = "image" -> ImagesOf(Store, pk) = {}
      [] rule = "description" -> Strip(products[pk].description) = <<>>
      [] rule = "price" -> ~(products[pk].price > 0)
      [] rule = "stock" -> ~(products[pk].stock >= 0)

\* C11: the owner's submit of a draft product that breaks submission rules
\* answers ValidationFailed with exactly the broken rules, each once, in the
\* order image, description, price, stock; a product with no image whose other
\* fields are valid gets the image message alone.
C11_AllErrorsInOrder ==
    \A pk \in DOMAIN products :
        products[pk].status = "draft" =>
            LET s == Run(Store, NewReq("submit", products[pk].seller, pk, 0, NoData), 0)
                broken == SelectSeq(SubmitRules, LAMBDA rule : RuleViolated(pk, rule))
            IN  /\ s.r.errors = broken
                /\ broken # <<>> => s.r.outcome = "ValidationFailed"
                /\ broken = <<"image">> <=>
                       /\ ImagesOf(Store, pk) = {}
                       /\ Strip(products[pk].description) # <<>>
                       /\ products[pk].price > 0
                       /\ products[pk].stock >= 0

\* A draft product with no image, a blank description and price zero: submit
\* answers the three messages.
C11_Witness ==
    /\ 1 \in DOMAIN products
    /\ products[1].status = "draft"
    /\ ImagesOf(Store, 1) = {}
    /\ products[1].description = <<" ">>
    /\ products[1].price = 0
    /\ Run(Store, NewReq("submit", "v1", 1, 0, NoData), 0).r.errors
           = <<"image", "description", "price">>

\* C12: an update, PUT or PATCH, by the owner of a product that is pending or
\* active is answered with the InvalidTransition error and changes nothing.
C12_NoEditWhileModerated ==
    \A pk \in DOMAIN products, d \in ProductData :
        products[pk].status \in {"pending", "active"} =>
            LET s == Run(Store, NewReq("update", products[pk].seller, pk, 0, d), 0)
            IN  s.r.outcome = "InvalidTransition" /\ s.db = Store

\* An active product, and its owner's valid update is refused.
C12_Witness ==
    /\ 1 \in DOMAIN products
    /\ products[1].status = "active"
    /\ \E d \in ProductData :
        /\ IsValid(d)
        /\ Run(Store, NewReq("update", "v1", 1, 0, d), 0).r.outcome = "InvalidTransition"

\* C13: the owner's update of a rejected product, when it succeeds, leaves
\* the product draft with an empty rejection_reason; of a draft product, when
\* it succeeds, leaves it draft; and an update refused by field validation
\* leaves status and rejection_reason, and every other field, as they were.
C13_EditResetsRejected ==
    \A pk \in DOMAIN products, d \in ProductData :
        products[pk].status \in {"draft", "rejected"} =>
            LET s == Run(Store, NewReq("update", products[pk].seller, pk, 0, d), 0)
                after == s.db.products[pk]
            IN  /\ s.r.outcome = IF IsValid(d) THEN "OK" ELSE "BadInput"
                /\ s.r.outcome = "OK" =>
                       /\ after.status = "draft"
                       /\ after.rejection_reason = <<>>
                       /\ s.r.product.status = "draft"
                       /\ s.r.product.rejection_reason = <<>>
                /\ s.r.outcome = "BadInput" => s.db = Store

\* A rejected product that carries a reason, and an update of it that
\* succeeds, and another that field validation refuses.
C13_Witness ==
    /\ 1 \in DOMAIN products
    /\ products[1].status = "rejected"
    /\ products[1].rejection_reason = <<"b">>
    /\ \E d, e \in ProductData :
        /\ Run(Store, NewReq("update", "v1", 1, 0, d), 0).r.outcome = "OK"
        /\ Run(Store, NewReq("update", "v1", 1, 0, e), 0).r.outcome = "BadInput"

\* The callers the moderation endpoints admit and that hold the capability
Moderators == {c \in Callers : DrfIsAdminUser(c) /\ can_moderate_products(c)}

\* C14: approve by a moderator of a pending product makes it active, with
\* approved_by the caller, approved_at the current time and rejection_reason
\* empty, and touches nothing else; approve of a product in any other status
\* is answered with an error and changes nothing.
C14_ApproveEffect ==
    \A pk \in DOMAIN products, c \in Moderators, t \in Times :
        LET s == Run(Store, NewReq("approve", c, pk, 0, NoData), t)
        IN  IF products[pk].status = "pending"
            THEN /\ s.r.outcome = "OK"
                 /\ s.db = [Store EXCEPT !.products[pk] =
                               [@ EXCEPT !.status = "active", !.approved_by = c,
                                         !.approved_at = t, !.rejection_reason = <<>>]]
            ELSE /\ s.r.outcome = "InvalidTransition"
                 /\ s.db = Store

\* A product that was rejected at time 0, edited and submitted again is
\* pending; the moderator's approval at time 1 makes it active at time 1.
C14_Witness ==
    /\ 1 \in DOMAIN products
    /\ products[1].status = "pending"
    /\ products[1].approved_by = "su"
    /\ products[1].approved_at = 0
    /\ LET s == Run(Store, NewReq("approve", "su", 1, 0, NoData), 1)
       IN  /\ s.db.products[1].status = "active"
           /\ s.db.products[1].approved_at = 1

\* The reason a reject request carries, once trimmed
TrimmedReason(d) ==
    CASE d.rejection_reason = <<" ", "b">> -> <<"b">>
      [] d.rejection_reason = <<" ">> -> <<>>
      [] d.rejection_reason = <<>> -> <<>>

\* C15: reject by a moderator of a pending product, with a reason that is not
\* blank once trimmed, makes it rejected, stores the trimmed reason and records
\* the caller and the current time in approved_by and approved_at, touching
\* nothing else; with no reason or a blank one, or when the product is not
\* pending, it is answered with an error and changes nothing.
C15_RejectEffect ==
    \A pk \in DOMAIN products, c \in Moderators, t \in Times, d \in RejectData :
        LET s == Run(Store, NewReq("reject", c, pk, 0, d), t)
        IN  IF products[pk].status = "pending" /\ TrimmedReason(d) # <<>>
            THEN /\ s.r.outcome = "OK"
                 /\ s.db = [Store EXCEPT !.products[pk] =
                               [@ EXCEPT !.status = "rejected",
                                         !.rejection_reason = TrimmedReason(d),
                                         !.approved_by = c, !.approved_at = t]]
            ELSE /\ s.r.outcome = IF products[pk].status = "pending"
                                  THEN "BadInput" ELSE "InvalidTransition"
                 /\ s.db = Store

\* A pending product: a rejection with reason " b" stores "b", and one with
\* the reason " " is refused.
C15_Witness ==
    /\ 1 \in DOMAIN products
    /\ products[1].status = "pending"
    /\ LET yes == Run(Store, NewReq("reject", "su", 1, 0,
                                    [NoData EXCEPT !.rejection_reason = <<" ", "b">>]), 1)
           no == Run(Store, NewReq("reject", "su", 1, 0,
                                   [NoData EXCEPT !.rejection_reason = <<" ">>]), 1)
       IN  /\ yes.db.products[1].rejection_reason = <<"b">>
           /\ yes.db.products[1].status = "rejected"
           /\ no.r.outcome = "BadInput"

\* Caller c may create products
MayCreate(c) == Users[c].role = "vendor" /\ Users[c].is_verified_vendor /\ Users[c].is_active

\* C16: create succeeds only for an active, verified vendor; the product it
\* adds is draft and sold by the caller, whatever status or seller the body
\* carries, and nothing else is changed; any other caller is answered
\* Forbidden and no product is created.  (The bodies carry a name that no
\* stored product has.)
C16_CreateDraftOwned ==
    \A c \in Callers, d \in VendorData :
        LET s == Run(Store, NewReq("create", c, 0, 0, Named(d, FreshName)), 0)
            pk == s.r.pk
        IN  IF MayCreate(c)
            THEN \/ s.r.outcome = "BadInput" /\ s.db = Store
                 \/ /\ s.r.outcome = "OK"
                    /\ pk \notin DOMAIN products
                    /\ DOMAIN s.db.products = DOMAIN products \cup {pk}
                    /\ s.db.products[pk].status = "draft"
                    /\ s.db.products[pk].seller = c
                    /\ \A q \in DOMAIN products : s.db.products[q] = products[q]
                    /\ s.db.images = images
            ELSE s.r.outcome = "Forbidden" /\ s.db = Store

\* Vendor v1 has created a product; a further create by v1 whose body names
\* seller v2 and status active succeeds, and a create by the unverified
\* vendor v2 is refused.
C16_Witness ==
    /\ DOMAIN products = {1}
    /\ products[1].seller = "v1"
    /\ \E d \in ForgedData :
        /\ Run(Store, NewReq("create", "v1", 0, 0, Named(d, FreshName)), 0).r.outcome = "OK"
        /\ Run(Store, NewReq("create", "v2", 0, 0, Named(d, FreshName)), 0).r.outcome
                = "Forbidden"

\* The image rows of db other than id
OtherRows(db, id) == [i \in DOMAIN db.images \ {id} |-> db.images[i]]

\* C17: the owner's add image to a product with no image stores the new image
\* as primary whatever is_primary the client sent; to a product that has
\* images, with is_primary absent or false, it stores the new image as not
\* primary and leaves every existing image, the primary included, unchanged.
C17_FirstImagePrimary ==
    \A pk \in DOMAIN products, d \in ImageData :
        d.valid =>
            LET s == Run(Store, NewReq("add_image", products[pk].seller, pk, 0, d), 0)
                id == nextImageId
            IN  /\ s.r.outcome = "OK"
                /\ DOMAIN s.db.images = DOMAIN images \cup {id}
                /\ s.db.images[id].product = pk
                /\ ImagesOf(Store, pk) = {} => s.db.images[id].is_primary
                /\ ImagesOf(Store, pk) # {} /\ ~d.is_primary =>
                       /\ ~s.db.images[id].is_primary
                       /\ OtherRows(s.db, id) = images

\* The first image was deleted and the second is the primary; an add image
\* with is_primary false stores a third image that is not primary.
C17_Witness ==
    /\ nextImageId = 3
    /\ DOMAIN images = {2}
    /\ images[2].product = 1 /\ images[2].is_primary
    /\ LET s == Run(Store, NewReq("add_image", "v1", 1, 0, NoData), 0)
       IN  /\ ~s.db.images[3].is_primary
           /\ s.db.images[2].is_primary

\* In db, image id is the only primary of product pk, the other images of pk
\* are what they were in the store but not primary, and the images of the
\* other products are what they were
OnlyPrimary(db, pk, id) ==
    /\ db.images[id].is_primary
    /\ db.images[id].product = pk
    /\ \A i \in DOMAIN db.images \ {id} :
        /\ i \in DOMAIN images
        /\ IF images[i].product = pk
           THEN db.images[i] = [images[i] EXCEPT !.is_primary = FALSE]
           ELSE db.images[i] = images[i]
    /\ \A i \in DOMAIN images \ {id} : i \in DOMAIN db.images

\* ProductImage.save() of the stored image i with is_primary set
SavedAsPrimary(i) ==
    LET img == [id |-> i, product |-> images[i].product, is_primary |-> TRUE,
                order |-> images[i].order]
    IN  WriteImage(DemoteOthers(Store, img), img)

\* C18: when an image is saved with is_primary true, by an add image that
\* asks for it or by a save of a stored image, every other primary image of
\* the same product stops being primary, the saved image is that product's
\* only primary, and the images of the other products are not touched.
C18_SavePrimaryDemotes ==
    /\ \A pk \in DOMAIN products, d \in ImageData :
        d.valid /\ d.is_primary =>
            LET s == Run(Store, NewReq("add_image", products[pk].seller, pk, 0, d), 0)
            IN  s.r.outcome = "OK" /\ OnlyPrimary(s.db, pk, nextImageId)
    /\ \A i \in DOMAIN images : OnlyPrimary(SavedAsPrimary(i), images[i].product, i)

\* Two products with a primary image each; an add image to the first that
\* asks for primary demotes the first product's image and not the second's.
C18_Witness ==
    /\ DOMAIN images = {1, 2}
    /\ images[1].product # images[2].product
    /\ images[1].is_primary /\ images[2].is_primary
    /\ LET pk == images[1].product
           s == Run(Store, NewReq("add_image", products[pk].seller, pk, 0,
                                  [NoData EXCEPT !.is_primary = TRUE]), 0)
       IN  /\ ~s.db.images[1].is_primary
           /\ s.db.images[2].is_primary
           /\ s.db.images[3].is_primary

\* Image j is the one of `rest` with the least order, the oldest among equals
NextInLine(rest, j) ==
    /\ j \in rest
    /\ \A k \in rest \ {j} :
        \/ images[j].order < images[k].order
        \/ images[j].order = images[k].order /\ j < k

\* C19: the owner's delete of the primary image, when other images remain,
\* makes primary the remaining image that comes first by order and then by
\* creation time; a delete of an image that is not primary changes the flag of
\* no other image; a delete of the last image leaves the product with no
\* image and no primary.  In each case only the deleted row disappears.
C19_DeletePromotesNext ==
    \A pk \in DOMAIN products :
        \A i \in ImagesOf(Store, pk) :
            LET s == Run(Store, NewReq("delete_image", products[pk].seller, pk, i, NoData), 0)
                rest == ImagesOf(Store, pk) \ {i}
            IN  /\ s.r.outcome = "OK"
                /\ DOMAIN s.db.images = DOMAIN images \ {i}
                /\ s.db.products = products
                /\ \A j \in DOMAIN images \ {i} :
                    s.db.images[j] =
                        IF images[i].is_primary /\ NextInLine(rest, j)
                        THEN [images[j] EXCEPT !.is_primary = TRUE]
                        ELSE images[j]

\* Three images: the first is primary, the second has order 1 and the third
\* order 0; deleting the first makes the third primary, not the second.
C19_Witness ==
    /\ DOMAIN images = {1, 2, 3}
    /\ \A i \in {1, 2, 3} : images[i].product = 1
    /\ images[1].is_primary
    /\ images[2].order = 1 /\ images[3].order = 0
    /\ LET s == Run(Store, NewReq("delete_image", "v1", 1, 1, NoData), 0)
       IN  s.db.images[3].is_primary /\ ~s.db.images[2].is_primary

\* C20: the owner's set primary of image X, made twice in a row, succeeds
\* both times; after each call X is the only primary image of the product,
\* and the second call changes nothing.
C20_SetPrimaryIdempotent ==
    \A pk \in DOMAIN products :
        \A x \in ImagesOf(Store, pk) :
            LET r == NewReq("set_primary", products[pk].seller, pk, x, NoData)
                once == Run(Store, r, 0)
                twice == Run(once.db, r, 0)
            IN  /\ once.r.outcome = "OK"
                /\ twice.r.outcome = "OK"
                /\ {i \in ImagesOf(once.db, pk) : once.db.images[i].is_primary} = {x}
                /\ ImagesOf(once.db, pk) = ImagesOf(Store, pk)
                /\ twice.db = once.db

\* Three images with the first primary; set primary of the third, twice.
C20_Witness ==
    /\ DOMAIN images = {1, 2, 3}
    /\ \A i \in {1, 2, 3} : images[i].product = 1
    /\ images[1].is_primary
    /\ LET r == NewReq("set_primary", "v1", 1, 3, NoData)
           once == Run(Store, r, 0)
       IN  /\ once.db.images[3].is_primary
           /\ ~once.db.images[1].is_primary
           /\ Run(once.db, r, 0).db = once.db

\* Set primary of image b of product pk by its owner, then delete of b
SetThenDelete(pk, b) ==
    LET owner == products[pk].seller
        set == Run(Store, NewReq("set_primary", owner, pk, b, NoData), 0)
        del == Run(set.db, NewReq("delete_image", owner, pk, b, NoData), 0)
    IN  [set |-> set, del |-> del]

\* C21, as amended: with A primary and B not, set primary of B leaves A not
\* primary and B primary; the delete of B that follows makes primary the
\* remaining image that comes first by order and creation time, which is A
\* when A is the only image left or is first in line, and otherwise another
\* image while A stays not primary.
C21_DeleteAfterSetPrimary ==
    \A pk \in DOMAIN products :
        \A a, b \in ImagesOf(Store, pk) :
            images[a].is_primary /\ ~images[b].is_primary =>
                LET s == SetThenDelete(pk, b)
                    rest == ImagesOf(Store, pk) \ {b}
                IN  /\ s.set.r.outcome = "OK" /\ s.del.r.outcome = "OK"
                    /\ ~s.set.db.images[a].is_primary
                    /\ s.set.db.images[b].is_primary
                    /\ b \notin DOMAIN s.del.db.images
                    /\ \A j \in rest : s.del.db.images[j].is_primary <=> NextInLine(rest, j)

\* C21, as stated: after set primary of B and delete of B, A is primary
\* exactly when A is the only image left.
C21_AsStated ==
    \A pk \in DOMAIN products :
        \A a, b \in ImagesOf(Store, pk) :
            images[a].is_primary /\ ~images[b].is_primary =>
                LET s == SetThenDelete(pk, b)
                IN  s.del.db.images[a].is_primary <=> ImagesOf(Store, pk) \ {b} = {a}

\* Three images of equal order, the first primary: after set primary and
\* delete of the second, the first is primary again although the third is left.
C21_Witness ==
    /\ DOMAIN images = {1, 2, 3}
    /\ \A i \in {1, 2, 3} : images[i].product = 1 /\ images[i].order = 0
    /\ images[1].is_primary
    /\ LET s == SetThenDelete(1, 2)
       IN  /\ s.set.db.images[2].is_primary
           /\ s.del.db.images[1].is_primary
           /\ ~s.del.db.images[3].is_primary

-----------------------------------------------------------------------------
(* Properties of the moderation fields *)

\* C22: in every reachable state, with requests interleaved or not, a product
\* that is draft, pending, active or inactive has an empty rejection_reason:
\* only a rejected product carries one.
C22_ReasonOnlyWhenRejected ==
    \A pk \in DOMAIN products :
        products[pk].rejection_reason # <<>> => products[pk].status = "rejected"

-----------------------------------------------------------------------------
(* Properties of the gallery at every status *)

\* The store with product pk at status st
AtStatus(pk, st) == [Store EXCEPT !.products[pk].status = st]

\* The image requests the owner of product pk can make on it
GalleryRequests(pk) ==
    LET owner == products[pk].seller
    IN  { NewReq("add_image", owner, pk, 0, d) : d \in {x \in ImageData : x.valid} }
        \cup { NewReq("delete_image", owner, pk, i, NoData) : i \in ImagesOf(Store, pk) }
        \cup { NewReq("set_primary", owner, pk, i, NoData) : i \in ImagesOf(Store, pk) }

\* C24: add image, delete image and set primary image, made by the owner, are
\* accepted whatever the status of the product (the one it has, and inactive
\* as well), and leave the product rows exactly as they were: status,
\* moderation fields and every other column.
C24_GalleryAtEveryStatus ==
    \A pk \in DOMAIN products :
        \A st \in {products[pk].status, "inactive"}, r \in GalleryRequests(pk) :
            LET before == AtStatus(pk, st)
                s == Run(before, r, 0)
            IN  /\ s.r.outcome = "OK"
                /\ s.db.products = before.products

\* An approved product with two images: its owner adds a third, deletes the
\* primary and moves the primary flag, and the product stays as approved.
C24_Witness ==
    /\ products[1].status = "active"
    /\ products[1].approved_by # NoUser
    /\ DOMAIN images = {1, 2}
    /\ images[1].is_primary
    /\ LET add == Run(Store, NewReq("add_image", "v1", 1, 0, NoData), 0)
           del == Run(Store, NewReq("delete_image", "v1", 1, 1, NoData), 0)
           set == Run(Store, NewReq("set_primary", "v1", 1, 2, NoData), 0)
       IN  /\ DOMAIN add.db.images = {1, 2, 3}
           /\ DOMAIN del.db.images = {2}
           /\ set.db.images[2].is_primary
           /\ add.db.products = products
           /\ del.db.products = products
           /\ set.db.products = products

\* C27, as amended: a submit that succeeds leaves the product pending with
\* the images it had, at least one; after that the owner's delete image is
\* still accepted while the product is pending or active and removes the
\* image, the last one included, without a change of status.
C27_ImageAtSubmit ==
    \A pk \in DOMAIN products :
        LET owner == products[pk].seller
            sub == Run(Store, NewReq("submit", owner, pk, 0, NoData), 0)
        IN  /\ sub.r.outcome = "OK" =>
                    /\ sub.db.products[pk].status = "pending"
                    /\ ImagesOf(sub.db, pk) # {}
                    /\ sub.db.images = images
            /\ products[pk].status \in {"pending", "active"} =>
                    \A i \in ImagesOf(Store, pk) :
                        LET del == Run(Store, NewReq("delete_image", owner, pk, i, NoData), 0)
                        IN  /\ del.r.outcome = "OK"
                            /\ ImagesOf(del.db, pk) = ImagesOf(Store, pk) \ {i}
                            /\ del.db.products = products

\* C27, as stated: a product that is pending or active has an image.
C27_AsStated ==
    \A pk \in DOMAIN products :
        products[pk].status \in {"pending", "active"} => ImagesOf(Store, pk) # {}

\* A pending product with the one image it was submitted with; the owner's
\* delete of that image leaves it pending with no image.
C27_Witness ==
    /\ products[1].status = "pending"
    /\ DOMAIN images = {1}
    /\ LET del == Run(Store, NewReq("delete_image", "v1", 1, 1, NoData), 0)
       IN  /\ del.r.outcome = "OK"
           /\ del.db.images = <<>>
           /\ del.db.products[1].status = "pending"

-----------------------------------------------------------------------------
(* Properties of the moderation record *)

\* A text with a character that is not a space
NonBlank(s) == \E i \in 1 .. Len(s) : s[i] # " "

\* C28: in every state reached through create, update, submit, approve and
\* reject, interleaved or not, a product that is active or rejected has
\* approved_by and approved_at set, and a rejected product has a
\* rejection_reason that is not blank.
C28_ModerationRecorded ==
    \A pk \in DOMAIN products :
        /\ products[pk].status \in {"active", "rejected"} =>
                /\ products[pk].approved_by # NoUser
                /\ products[pk].approved_at \in Times
        /\ products[pk].status = "rejected" => NonBlank(products[pk].rejection_reason)

\* A product rejected at time 1 while an update of it is in flight.
C28_Witness ==
    /\ products[1].status = "rejected"
    /\ products[1].approved_by = "su"
    /\ products[1].approved_at = 1
    /\ products[1].rejection_reason = <<"b">>
    /\ \E s \in Slots : reqs[s].op = "update" /\ reqs[s].pc # "start"

-----------------------------------------------------------------------------
(* Properties of the image lookup *)

\* C29: delete image and set primary image, called by the owner of a product
\* with the id of an image of another product, one of the caller's own
\* included, answer NotFound and leave every image of both products, and
\* everything else in the store, as it was.
C29_ForeignImageNotFound ==
    \A pk \in DOMAIN products, i \in DOMAIN images :
        images[i].product # pk =>
            \A op \in {"delete_image", "set_primary"} :
                LET s == Run(Store, NewReq(op, products[pk].seller, pk, i, NoData), 0)
                IN  /\ s.r.outcome = "NotFound"
                    /\ s.db = Store

\* Two products of one vendor with a primary image each: image 2 is refused
\* under product 1 and deleted under product 2.
C29_Witness ==
    /\ DOMAIN products = {1, 2}
    /\ products[1].seller = products[2].seller
    /\ DOMAIN images = {1, 2}
    /\ images[1].product = 1 /\ images[2].product = 2
    /\ images[1].is_primary /\ images[2].is_primary
    /\ Run(Store, NewReq("delete_image", "v1", 1, 2, NoData), 0).r.outcome = "NotFound"
    /\ Run(Store, NewReq("set_primary", "v1", 1, 2, NoData), 0).db = Store
    /\ Run(Store, NewReq("delete_image", "v1", 2, 2, NoData), 0).r.outcome = "OK"

-----------------------------------------------------------------------------
(* Properties of the catalogue *)

\* C23: an update by the owner, whatever its body carries, leaves seller,
\* slug, approved_by, approved_at, is_featured, views_count and sales_count
\* of the product as they were; the slug stays the one derived from the name
\* at creation even when the name changes.
C23_UpdateFrame ==
    \A pk \in DOMAIN products, d \in CatalogData :
        LET s == Run(Store, NewReq("update", products[pk].seller, pk, 0, d), 0)
            before == products[pk]
            after == s.db.products[pk]
        IN  /\ after.seller = before.seller
            /\ after.slug = before.slug
            /\ after.approved_by = before.approved_by
            /\ after.approved_at = before.approved_at
            /\ after.is_featured = before.is_featured
            /\ after.views_count = before.views_count
            /\ after.sales_count = before.sales_count

\* C25: views_count and sales_count of a product never decrease, whatever
\* the interleaving of the public detail reads and the sales.
C25_CountersMonotonic ==
    [][\A pk \in DOMAIN products :
            /\ products'[pk].views_count >= products[pk].views_count
            /\ products'[pk].sales_count >= products[pk].sales_count]_vars

\* The kinds of answer the operations may give
Classified ==
    {"OK", "NotFound", "Forbidden", "InvalidTransition", "ValidationFailed", "BadInput"}

\* Requests of the owner, a customer and a moderator for the core operations
CoreRequests ==
    { NewReq("create", c, 0, 0, d) : c \in {Owner, "cu"}, d \in CatalogData }
    \cup { NewReq("update", Owner, pk, 0, d) : pk \in Pks, d \in CatalogData }
    \cup { NewReq(op, Owner, pk, 0, NoData) : op \in {"detail", "submit", "add_image"},
                                             pk \in Pks }
    \cup { NewReq(op, Owner, pk, i, NoData) : op \in {"delete_image", "set_primary"},
                                             pk \in Pks, i \in ImagePks }
    \cup { NewReq("approve", Moderator, pk, 0, NoData) : pk \in Pks }
    \cup { NewReq("reject", Moderator, pk, 0, d) : pk \in Pks, d \in RejectData }

\* C26: every core operation answers with success or with an error of kind
\* NotFound, Forbidden, InvalidTransition, ValidationFailed or BadInput; no
\* exception of the store escapes, a create whose name gives the slug of an
\* existing product included.
C26_OutcomesClassified ==
    \A r \in CoreRequests : Run(Store, r, 0).r.outcome \in Classified

\* Product pk of db is active and its seller is a verified, active vendor
OnSale(db, pk) ==
    /\ db.products[pk].status = "active"
    /\ db.accounts[db.products[pk].seller].is_verified_vendor
    /\ db.accounts[db.products[pk].seller].is_active

\* The store, and the store with one of its products made inactive
Catalogues == {Store} \cup { AtStatus(pk, "inactive") : pk \in DOMAIN products }

\* C30: the public list returns exactly the products that are active and
\* whose seller is a verified and active vendor, and the public detail
\* returns such a product or answers NotFound; a product that is draft,
\* pending, rejected or inactive, or whose seller is unverified or
\* deactivated, is never returned, and a detail request answered NotFound
\* leaves views_count, and the rest of the store, as it was.
C30_PublicOnlyOnSale ==
    \A db \in Catalogues :
        /\ LET l == Run(db, NewReq("public_list", NoUser, 0, 0, NoData), 0)
           IN  /\ l.r.listed = {pk \in DOMAIN db.products : OnSale(db, pk)}
               /\ l.db = db
        /\ \A slug \in Slugs :
                LET s == Run(db, PublicDetailReq(slug), 0)
                IN  IF \E pk \in DOMAIN db.products :
                            db.products[pk].slug = slug /\ OnSale(db, pk)
                    THEN /\ s.r.outcome = "OK"
                         /\ OnSale(db, s.r.pk)
                         /\ db.products[s.r.pk].slug = slug
                    ELSE /\ s.r.outcome = "NotFound"
                         /\ s.db = db

\* Two products: the first is active and has been read once, the second is
\* a draft; the vendor has then lost the verified flag.  The list is empty
\* and the detail of the first is NotFound with its views_count untouched;
\* with the flag back the first product, and not the second, is returned.
C30_Witness ==
    /\ DOMAIN products = {1, 2}
    /\ products[1].status = "active" /\ products[1].views_count = 1
    /\ products[2].status = "draft"
    /\ ~accounts[Owner].is_verified_vendor /\ accounts[Owner].is_active
    /\ Run(Store, NewReq("public_list", NoUser, 0, 0, NoData), 0).r.listed = {}
    /\ LET s == Run(Store, PublicDetailReq(products[1].slug), 0)
       IN  s.r.outcome = "NotFound" /\ s.db.products[1].views_count = 1
    /\ LET back == Run(Store, VendorReq("verify_vendor", Moderator, Owner, NoData), 0).db
       IN  /\ Run(back, NewReq("public_list", NoUser, 0, 0, NoData), 0).r.listed = {1}
           /\ Run(back, PublicDetailReq(products[2].slug), 0).r.outcome = "NotFound"

====
